---- MODULE Spec2Model ----
(***************************************************************************)
(* Model of nrf-hal-common/src/clocks.rs: the Clocks controller over the   *)
(* CLOCK peripheral's task / event registers and the LFCLKSRC register.    *)
(*                                                                         *)
(* The controller is single threaded.  A blocking call (enable_ext_hfosc,  *)
(* start_lfclk) is a sequence of register accesses: the task write, the    *)
(* reads of the event register made by the busy-wait loop, and the write   *)
(* that clears the event.  The peripheral hardware runs concurrently and   *)
(* raises the started event some time after a start task was triggered.    *)
(***************************************************************************)
EXTENDS Integers, Sequences, FiniteSets, TLC

\* Reads of the event register that returned 0 are recorded in the access
\* log of a call up to this many; further ones still happen, unrecorded.
MaxPolls == 2

\* Build features selecting the register layout (clocks.rs:3-7, 69, 87).
Feature51   == "51"       \* variant A: LFCLKSRC has the SRC field only
FeatureFull == "full"     \* variant B: SRC, BYPASS and EXTERNAL fields
Feature9160 == "9160"     \* variant C: no LFCLKSRC register
Features == {Feature51, FeatureFull, Feature9160}

\* The three values of enum LfOscConfiguration.
LfOscConfiguration == {"NoExternalNoBypass", "ExternalNoBypass", "ExternalAndBypass"}

VARIABLES
    feature,  \* the build feature (fixed for a behaviour)
    periph,   \* Clocks.periph: the CLOCK register block and the clocks behind it
    pc,       \* position of the controller's thread
    op,       \* the call in progress, or the last call that returned
    arg,      \* the argument of that call ("-" when it takes none)
    log,      \* register accesses made by that call, in order
    entry,    \* periph as it was when that call was made
    prev      \* the call made before that call ("none" when there was none)

vars == <<feature, periph, pc, op, arg, log, entry, prev>>

----------------------------------------------------------------------------
\* Register accesses, as recorded in the log.

Wr(reg, val) == [kind |-> "write", reg |-> reg, val |-> val]
Rd(reg, val) == [kind |-> "read",  reg |-> reg, val |-> val]

ZeroReads(l) == Cardinality({i \in 1..Len(l) : l[i].kind = "read" /\ l[i].val = 0})

\* Append a read to the log; zero reads beyond MaxPolls are not recorded.
LogRead(l, reg, val) ==
    IF val = 0 /\ ZeroReads(l) >= MaxPolls THEN l ELSE Append(l, Rd(reg, val))

----------------------------------------------------------------------------
\* The LFCLKSRC register.  A field the layout does not have is "absent".

BitField(b) == IF b THEN "enabled" ELSE "disabled"

\* Value `write` hands to its closure: the register's reset value.
LfClkSrcReset(f) ==
    IF f = FeatureFull THEN [src |-> "rc", bypass |-> "disabled", external |-> "disabled"]
    ELSE IF f = Feature51 THEN [src |-> "rc", bypass |-> "absent", external |-> "absent"]
    ELSE [src |-> "absent", bypass |-> "absent", external |-> "absent"]

\* Field writers of the closure argument w.
W_src(w, v)      == [w EXCEPT !.src = v]
W_bypass(w, v)   == [w EXCEPT !.bypass = v]
W_external(w, v) == [w EXCEPT !.external = v]

\* A mis-ordered match: the pair built as (byp, ext).
LfOscBitsSwapped(cfg) ==
    IF cfg = "NoExternalNoBypass" THEN <<FALSE, FALSE>>
    ELSE IF cfg = "ExternalNoBypass" THEN <<FALSE, TRUE>>
    ELSE <<TRUE, TRUE>>

\* let (ext, byp) = match cfg { ... }
LfOscBits(cfg) ==
    IF cfg = "NoExternalNoBypass" THEN <<FALSE, FALSE>>
    ELSE IF cfg = "ExternalNoBypass" THEN <<TRUE, FALSE>>
    ELSE <<TRUE, TRUE>>

----------------------------------------------------------------------------
\* The peripheral's reaction to a write of val to a task register: a start
\* task requests the clock to start (the started event follows later), a
\* stop task stops the clock; on a stopped clock a stop changes nothing.

TaskWrite(p, reg, val) ==
    IF val # 1 THEN p
    ELSE IF reg = "tasks_hfclkstart" THEN [p EXCEPT !.hfclk_req = TRUE]
    ELSE IF reg = "tasks_hfclkstop"  THEN [p EXCEPT !.hfclk_run = FALSE, !.hfclk_req = FALSE]
    ELSE IF reg = "tasks_lfclkstart" THEN [p EXCEPT !.lfclk_req = TRUE]
    ELSE IF reg = "tasks_lfclkstop"  THEN [p EXCEPT !.lfclk_run = FALSE, !.lfclk_req = FALSE]
    ELSE p

HfStopped(p) == ~p.hfclk_run /\ ~p.hfclk_req
LfStopped(p) == ~p.lfclk_run /\ ~p.lfclk_req

----------------------------------------------------------------------------
\* Clocks::new(clock): the controller takes the peripheral as it finds it.
\* The events may be pending from earlier use; LFCLKSRC holds its reset value.

Init ==
    /\ feature \in Features
    /\ \E eh \in {0, 1}, el \in {0, 1}, rh \in BOOLEAN, rl \in BOOLEAN :
          periph = [events_hfclkstarted |-> eh, events_lfclkstarted |-> el,
                    hfclk_run |-> rh, hfclk_req |-> FALSE,
                    lfclk_run |-> rl, lfclk_req |-> FALSE,
                    lfclksrc |-> LfClkSrcReset(feature)]
    /\ pc = "idle"
    /\ op = "none"
    /\ arg = "-"
    /\ log = << >>
    /\ entry = periph
    /\ prev = "none"

\* A call is made: only when no other call is in progress.
Call(name, a) ==
    /\ pc = "idle"
    /\ op' = name
    /\ arg' = a
    /\ entry' = periph
    /\ prev' = op
    /\ UNCHANGED feature

\* A later step of the call in progress.
Step == UNCHANGED <<feature, op, arg, entry, prev>>

----------------------------------------------------------------------------
\* enable_ext_hfosc

\* The stop task triggered in place of the start task.
enable_ext_hfosc_wrongtask ==
    /\ Call("enable_ext_hfosc", "-")
    /\ periph' = TaskWrite(periph, "tasks_hfclkstop", 1)
    /\ log' = <<Wr("tasks_hfclkstop", 1)>>
    /\ pc' = "hf_wait"

enable_ext_hfosc ==
    /\ Call("enable_ext_hfosc", "-")
    /\ periph' = TaskWrite(periph, "tasks_hfclkstart", 1)
    /\ log' = <<Wr("tasks_hfclkstart", 1)>>
    /\ pc' = "hf_wait"

\* The event written 0 whatever the read returned, on each poll.
enable_ext_hfosc_poll_clears ==
    /\ pc = "hf_wait"
    /\ Step
    /\ log' = Append(LogRead(log, "events_hfclkstarted", periph.events_hfclkstarted),
                     Wr("events_hfclkstarted", 0))
    /\ pc' = IF periph.events_hfclkstarted # 1 THEN "hf_wait" ELSE "idle"
    /\ periph' = [periph EXCEPT !.events_hfclkstarted = 0]

\* The wait given up after MaxPolls reads of 0.
enable_ext_hfosc_poll_timeout ==
    /\ pc = "hf_wait"
    /\ Step
    /\ log' = LogRead(log, "events_hfclkstarted", periph.events_hfclkstarted)
    /\ pc' = IF periph.events_hfclkstarted # 1 /\ ZeroReads(log) < MaxPolls
             THEN "hf_wait" ELSE "hf_clear"
    /\ UNCHANGED periph

\* One evaluation of the loop condition: a read of the event register.
enable_ext_hfosc_poll ==
    /\ pc = "hf_wait"
    /\ Step
    /\ log' = LogRead(log, "events_hfclkstarted", periph.events_hfclkstarted)
    /\ pc' = IF periph.events_hfclkstarted # 1 THEN "hf_wait" ELSE "hf_clear"
    /\ UNCHANGED periph

\* The clearing write; the call returns.
enable_ext_hfosc_clear ==
    /\ pc = "hf_clear"
    /\ Step
    /\ periph' = [periph EXCEPT !.events_hfclkstarted = 0]
    /\ log' = Append(log, Wr("events_hfclkstarted", 0))
    /\ pc' = "idle"

\* The LF stop task triggered in place of the HF one.
disable_ext_hfosc_lfstop ==
    /\ Call("disable_ext_hfosc", "-")
    /\ periph' = TaskWrite(periph, "tasks_lfclkstop", 1)
    /\ log' = <<Wr("tasks_lfclkstop", 1)>>
    /\ pc' = "idle"

\* The stop followed by the clearing write of the start sequence.
disable_ext_hfosc_clears ==
    /\ Call("disable_ext_hfosc", "-")
    /\ periph' = [TaskWrite(periph, "tasks_hfclkstop", 1) EXCEPT !.events_hfclkstarted = 0]
    /\ log' = <<Wr("tasks_hfclkstop", 1), Wr("events_hfclkstarted", 0)>>
    /\ pc' = "idle"

\* disable_ext_hfosc
disable_ext_hfosc ==
    /\ Call("disable_ext_hfosc", "-")
    /\ periph' = TaskWrite(periph, "tasks_hfclkstop", 1)
    /\ log' = <<Wr("tasks_hfclkstop", 1)>>
    /\ pc' = "idle"

----------------------------------------------------------------------------
\* start_lfclk

\* The start preceded by a reset of the source selection.
start_lfclk_selects ==
    /\ Call("start_lfclk", "-")
    /\ periph' = [TaskWrite(periph, "tasks_lfclkstart", 1)
                     EXCEPT !.lfclksrc = LfClkSrcReset(feature)]
    /\ log' = <<Wr("lfclksrc", LfClkSrcReset(feature)), Wr("tasks_lfclkstart", 1)>>
    /\ pc' = "lf_wait"

start_lfclk ==
    /\ Call("start_lfclk", "-")
    /\ periph' = TaskWrite(periph, "tasks_lfclkstart", 1)
    /\ log' = <<Wr("tasks_lfclkstart", 1)>>
    /\ pc' = "lf_wait"

\* The trigger written again on every read of 0.
start_lfclk_poll_retrigger ==
    /\ pc = "lf_wait"
    /\ Step
    /\ log' = IF periph.events_lfclkstarted # 1
              THEN Append(LogRead(log, "events_lfclkstarted", 0), Wr("tasks_lfclkstart", 1))
              ELSE LogRead(log, "events_lfclkstarted", 1)
    /\ pc' = IF periph.events_lfclkstarted # 1 THEN "lf_wait" ELSE "lf_clear"
    /\ periph' = IF periph.events_lfclkstarted # 1
                 THEN TaskWrite(periph, "tasks_lfclkstart", 1) ELSE periph

start_lfclk_poll ==
    /\ pc = "lf_wait"
    /\ Step
    /\ log' = LogRead(log, "events_lfclkstarted", periph.events_lfclkstarted)
    /\ pc' = IF periph.events_lfclkstarted # 1 THEN "lf_wait" ELSE "lf_clear"
    /\ UNCHANGED periph

\* The return without the clearing write.
start_lfclk_clear_missing ==
    /\ pc = "lf_clear"
    /\ Step
    /\ UNCHANGED <<periph, log>>
    /\ pc' = "idle"

start_lfclk_clear ==
    /\ pc = "lf_clear"
    /\ Step
    /\ periph' = [periph EXCEPT !.events_lfclkstarted = 0]
    /\ log' = Append(log, Wr("events_lfclkstarted", 0))
    /\ pc' = "idle"

\* The stop followed by the wait of the start sequence.
stop_lfclk_waits ==
    /\ Call("stop_lfclk", "-")
    /\ periph' = TaskWrite(periph, "tasks_lfclkstop", 1)
    /\ log' = <<Wr("tasks_lfclkstop", 1)>>
    /\ pc' = "lf_wait"

\* stop_lfclk
stop_lfclk ==
    /\ Call("stop_lfclk", "-")
    /\ periph' = TaskWrite(periph, "tasks_lfclkstop", 1)
    /\ log' = <<Wr("tasks_lfclkstop", 1)>>
    /\ pc' = "idle"

----------------------------------------------------------------------------
\* Source selection.  Each is one `write` of LFCLKSRC: the closure's result,
\* built from the reset value, replaces the whole register.

WriteLfClkSrc(v) ==
    /\ periph' = [periph EXCEPT !.lfclksrc = v]
    /\ log' = <<Wr("lfclksrc", v)>>
    /\ pc' = "idle"

\* feature "51"
set_lfclk_src_rc_51 ==
    /\ feature = Feature51
    /\ Call("set_lfclk_src_rc", "-")
    /\ WriteLfClkSrc(W_src(LfClkSrcReset(feature), "rc"))

set_lfclk_src_synth_51 ==
    /\ feature = Feature51
    /\ Call("set_lfclk_src_synth", "-")
    /\ WriteLfClkSrc(W_src(LfClkSrcReset(feature), "synth"))

\* The crystal selected and the LF clock started with it.
set_lfclk_src_external_51_starts ==
    /\ feature = Feature51
    /\ Call("set_lfclk_src_external", "-")
    /\ periph' = [TaskWrite(periph, "tasks_lfclkstart", 1)
                     EXCEPT !.lfclksrc = W_src(LfClkSrcReset(feature), "xtal")]
    /\ log' = <<Wr("lfclksrc", W_src(LfClkSrcReset(feature), "xtal")),
                Wr("tasks_lfclkstart", 1)>>
    /\ pc' = "idle"

set_lfclk_src_external_51 ==
    /\ feature = Feature51
    /\ Call("set_lfclk_src_external", "-")
    /\ WriteLfClkSrc(W_src(LfClkSrcReset(feature), "xtal"))

\* not(any(feature "9160", feature "51"))

\* The method gated on not(feature "51") alone.
set_lfclk_src_rc_ungated ==
    /\ feature # Feature51
    /\ Call("set_lfclk_src_rc", "-")
    /\ WriteLfClkSrc(W_external(W_bypass(W_src(LfClkSrcReset(feature), "rc"),
                                         "disabled"), "disabled"))

\* The register modified in place: only SRC is written.
set_lfclk_src_rc_modify ==
    /\ feature = FeatureFull
    /\ Call("set_lfclk_src_rc", "-")
    /\ WriteLfClkSrc(W_src(periph.lfclksrc, "rc"))

set_lfclk_src_rc ==
    /\ feature = FeatureFull
    /\ Call("set_lfclk_src_rc", "-")
    /\ WriteLfClkSrc(W_external(W_bypass(W_src(LfClkSrcReset(feature), "rc"),
                                         "disabled"), "disabled"))

\* The selection skipped while the LF clock runs.
set_lfclk_src_synth_guarded ==
    /\ feature = FeatureFull
    /\ Call("set_lfclk_src_synth", "-")
    /\ IF periph.lfclk_run
       THEN /\ UNCHANGED periph
            /\ log' = << >>
            /\ pc' = "idle"
       ELSE WriteLfClkSrc(W_external(W_bypass(W_src(LfClkSrcReset(feature), "synth"),
                                              "disabled"), "disabled"))

set_lfclk_src_synth_modify ==
    /\ feature = FeatureFull
    /\ Call("set_lfclk_src_synth", "-")
    /\ WriteLfClkSrc(W_src(periph.lfclksrc, "synth"))

set_lfclk_src_synth ==
    /\ feature = FeatureFull
    /\ Call("set_lfclk_src_synth", "-")
    /\ WriteLfClkSrc(W_external(W_bypass(W_src(LfClkSrcReset(feature), "synth"),
                                         "disabled"), "disabled"))

set_lfclk_src_external ==
    /\ feature = FeatureFull
    /\ \E cfg \in LfOscConfiguration :
          LET ext == LfOscBits(cfg)[1]
              byp == LfOscBits(cfg)[2]
          IN  /\ Call("set_lfclk_src_external", cfg)
              /\ WriteLfClkSrc(W_external(W_bypass(W_src(LfClkSrcReset(feature), "xtal"),
                                                   BitField(byp)), BitField(ext)))

----------------------------------------------------------------------------
\* The peripheral hardware: a requested start completes, the clock runs and
\* the started event is raised.  Event registers are sticky.

HfClkStarted ==
    /\ periph.hfclk_req
    /\ periph' = [periph EXCEPT !.hfclk_req = FALSE, !.hfclk_run = TRUE,
                                !.events_hfclkstarted = 1]
    /\ UNCHANGED <<feature, pc, op, arg, log, entry, prev>>

LfClkStarted ==
    /\ periph.lfclk_req
    /\ periph' = [periph EXCEPT !.lfclk_req = FALSE, !.lfclk_run = TRUE,
                                !.events_lfclkstarted = 1]
    /\ UNCHANGED <<feature, pc, op, arg, log, entry, prev>>

----------------------------------------------------------------------------
Next ==
    \/ enable_ext_hfosc
    \/ enable_ext_hfosc_poll
    \/ enable_ext_hfosc_clear
    \/ disable_ext_hfosc
    \/ start_lfclk
    \/ start_lfclk_poll
    \/ start_lfclk_clear
    \/ stop_lfclk
    \/ set_lfclk_src_rc_51
    \/ set_lfclk_src_synth_51
    \/ set_lfclk_src_external_51
    \/ set_lfclk_src_rc
    \/ set_lfclk_src_synth
    \/ set_lfclk_src_external
    \/ HfClkStarted
    \/ LfClkStarted

Spec == Init /\ [][Next]_vars

\* The processor keeps executing a call that was made.
Cpu ==
    /\ WF_vars(enable_ext_hfosc_poll)
    /\ WF_vars(enable_ext_hfosc_clear)
    /\ WF_vars(start_lfclk_poll)
    /\ WF_vars(start_lfclk_clear)

SpecCpu == Spec /\ Cpu

\* ... and the hardware completes every start that was requested.
SpecFair == Spec /\ Cpu /\ WF_vars(HfClkStarted) /\ WF_vars(LfClkStarted)

\* A peripheral handed over with no started event pending.
InitClean ==
    /\ Init
    /\ periph.events_hfclkstarted = 0
    /\ periph.events_lfclkstarted = 0

SpecClean == InitClean /\ [][Next]_vars

----------------------------------------------------------------------------
\* Vocabulary of the properties.

Returned(name) == op = name /\ pc = "idle"
Returns(name)  == op = name /\ pc # "idle" /\ pc' = "idle"

Accesses(l, reg) == {i \in 1..Len(l) : l[i].reg = reg}
Writes(l, reg)   == {i \in 1..Len(l) : l[i].reg = reg /\ l[i].kind = "write"}

\* C1: enable_ext_hfosc (start_lfclk) does not return until a read of the
\* HF-started (LF-started) event has returned 1: a step taken while the call
\* waits and the event is 0 leaves it waiting, whatever the number of polls,
\* and once the event is 1 the call returns.
C1_BlocksUntilStarted ==
    /\ [](Returned("enable_ext_hfosc") =>
            \E i \in 1..Len(log) : log[i] = Rd("events_hfclkstarted", 1))
    /\ [](Returned("start_lfclk") =>
            \E i \in 1..Len(log) : log[i] = Rd("events_lfclkstarted", 1))
    /\ [][(pc = "hf_wait" /\ periph.events_hfclkstarted = 0) => pc' = "hf_wait"]_vars
    /\ [][(pc = "lf_wait" /\ periph.events_lfclkstarted = 0) => pc' = "lf_wait"]_vars
    /\ (pc = "hf_wait" /\ periph.events_hfclkstarted = 1) ~> Returned("enable_ext_hfosc")
    /\ (pc = "lf_wait" /\ periph.events_lfclkstarted = 1) ~> Returned("start_lfclk")

\* A call that polled the event as 0 MaxPolls times and more, then returned.
C1_Witness ==
    /\ Returned("enable_ext_hfosc")
    /\ ZeroReads(log) = MaxPolls
    /\ entry.events_hfclkstarted = 0

\* C2: at the return of enable_ext_hfosc the HF-started event reads 0, at the
\* return of start_lfclk the LF-started event reads 0, also when the event
\* was already 1 when the call was made.
C2_EventClearedAtReturn ==
    [][/\ Returns("enable_ext_hfosc") => periph'.events_hfclkstarted = 0
       /\ Returns("start_lfclk") => periph'.events_lfclkstarted = 0]_vars

\* start_lfclk returned, called with the event already 1.
C2_Witness ==
    /\ Returned("start_lfclk")
    /\ entry.events_lfclkstarted = 1
    /\ periph.events_lfclkstarted = 0

\* C3: a call of enable_ext_hfosc (start_lfclk) writes its start task once,
\* with the value 1, as its first access; the task is not written again
\* while the call waits, nor before it returns.
C3_OneTrigger ==
    /\ op = "enable_ext_hfosc" =>
          /\ Writes(log, "tasks_hfclkstart") = {1}
          /\ log[1] = Wr("tasks_hfclkstart", 1)
          /\ Accesses(log, "tasks_hfclkstart") = {1}
    /\ op = "start_lfclk" =>
          /\ Writes(log, "tasks_lfclkstart") = {1}
          /\ log[1] = Wr("tasks_lfclkstart", 1)
          /\ Accesses(log, "tasks_lfclkstart") = {1}

\* A call still waiting after MaxPolls polls.
C3_Witness ==
    /\ op = "enable_ext_hfosc"
    /\ pc = "hf_wait"
    /\ ZeroReads(log) = MaxPolls

\* C4: disable_ext_hfosc and stop_lfclk make one access, the write of 1 to
\* their own stop task, and return in the same step; both event fields are
\* as before the call.
C4_StopFireAndForget ==
    [][/\ disable_ext_hfosc =>
            /\ pc' = "idle"
            /\ log' = <<Wr("tasks_hfclkstop", 1)>>
            /\ periph'.events_hfclkstarted = periph.events_hfclkstarted
            /\ periph'.events_lfclkstarted = periph.events_lfclkstarted
       /\ stop_lfclk =>
            /\ pc' = "idle"
            /\ log' = <<Wr("tasks_lfclkstop", 1)>>
            /\ periph'.events_hfclkstarted = periph.events_hfclkstarted
            /\ periph'.events_lfclkstarted = periph.events_lfclkstarted]_vars

\* disable_ext_hfosc returned with a pending HF-started event left pending.
C4_Witness ==
    /\ Returned("disable_ext_hfosc")
    /\ entry.events_hfclkstarted = 1
    /\ periph.events_hfclkstarted = 1

\* C5: on the full layout set_lfclk_src_external(cfg) leaves LFCLKSRC with
\* src = xtal and (external, bypass) = (off, off), (on, off), (on, on) for
\* NoExternalNoBypass, ExternalNoBypass, ExternalAndBypass.
C5_ExternalBits ==
    (feature = FeatureFull /\ Returned("set_lfclk_src_external")) =>
        /\ periph.lfclksrc.src = "xtal"
        /\ arg = "NoExternalNoBypass" =>
              periph.lfclksrc.external = "disabled" /\ periph.lfclksrc.bypass = "disabled"
        /\ arg = "ExternalNoBypass" =>
              periph.lfclksrc.external = "enabled" /\ periph.lfclksrc.bypass = "disabled"
        /\ arg = "ExternalAndBypass" =>
              periph.lfclksrc.external = "enabled" /\ periph.lfclksrc.bypass = "enabled"

\* ExternalNoBypass written over a register that held synth.
C5_Witness ==
    /\ feature = FeatureFull
    /\ Returned("set_lfclk_src_external")
    /\ arg = "ExternalNoBypass"
    /\ entry.lfclksrc.src = "synth"
    /\ periph.lfclksrc.external = "enabled"

\* C6: on the full layout, after set_lfclk_src_rc or set_lfclk_src_synth the
\* bypass and external bits are disabled, whatever they were before.
C6_RcSynthDisableBits ==
    (feature = FeatureFull /\ (Returned("set_lfclk_src_rc") \/ Returned("set_lfclk_src_synth"))) =>
        /\ periph.lfclksrc.bypass = "disabled"
        /\ periph.lfclksrc.external = "disabled"

\* set_lfclk_src_rc called on a register holding external and bypass enabled.
C6_Witness ==
    /\ feature = FeatureFull
    /\ Returned("set_lfclk_src_rc")
    /\ entry.lfclksrc.bypass = "enabled"
    /\ entry.lfclksrc.external = "enabled"
    /\ periph.lfclksrc.bypass = "disabled"

\* C7: when the hardware completes every requested start, every call of
\* enable_ext_hfosc and of start_lfclk returns, also one made on a running
\* clock; the controller is only ever idle or inside one of the two waits.
C7_StartTerminates ==
    /\ [](pc \in {"idle", "hf_wait", "hf_clear", "lf_wait", "lf_clear"})
    /\ (op = "enable_ext_hfosc" /\ pc # "idle") ~> Returned("enable_ext_hfosc")
    /\ (op = "start_lfclk" /\ pc # "idle") ~> Returned("start_lfclk")

\* enable_ext_hfosc returned after waiting, called while the HF clock ran.
C7_Witness ==
    /\ Returned("enable_ext_hfosc")
    /\ entry.hfclk_run
    /\ entry.events_hfclkstarted = 0
    /\ ZeroReads(log) > 0

\* C8: disable_ext_hfosc (stop_lfclk) returns in the step it is called in;
\* on a stopped HF (LF) clock it leaves the peripheral as it was, and it
\* always leaves the clock stopped, so a second call changes nothing more.
C8_StopIdempotent ==
    [][/\ disable_ext_hfosc =>
            /\ pc' = "idle"
            /\ HfStopped(periph')
            /\ HfStopped(periph) => periph' = periph
       /\ stop_lfclk =>
            /\ pc' = "idle"
            /\ LfStopped(periph')
            /\ LfStopped(periph) => periph' = periph]_vars

\* stop_lfclk returned, called on a stopped LF clock.
C8_Witness ==
    /\ Returned("stop_lfclk")
    /\ LfStopped(entry)
    /\ periph = entry

\* The accesses of a start call that returned: the task write, reads of the
\* event of which the last alone returned 1, the clearing write.
StartPattern(l, task, event) ==
    /\ Len(l) >= 3
    /\ l[1] = Wr(task, 1)
    /\ \A i \in 2..(Len(l) - 2) : l[i] = Rd(event, 0)
    /\ l[Len(l) - 1] = Rd(event, 1)
    /\ l[Len(l)] = Wr(event, 0)

\* C9: start_lfclk does not access LFCLKSRC: during and after the call the
\* register is as at the call, and the returned call made the trigger /
\* observe / clear accesses whatever the register holds.
C9_StartLfIgnoresSource ==
    op = "start_lfclk" =>
        /\ periph.lfclksrc = entry.lfclksrc
        /\ Accesses(log, "lfclksrc") = {}
        /\ pc = "idle" => StartPattern(log, "tasks_lfclkstart", "events_lfclkstarted")

\* start_lfclk returned with the crystal selected, external and bypass on.
C9_Witness ==
    /\ Returned("start_lfclk")
    /\ periph.lfclksrc.src = "xtal"
    /\ periph.lfclksrc.bypass = "enabled"

\* What a source selection writes, by layout, operation and argument.
Selected(f, name, a) ==
    IF f = Feature51
    THEN [src |-> IF name = "set_lfclk_src_rc" THEN "rc"
                  ELSE IF name = "set_lfclk_src_synth" THEN "synth" ELSE "xtal",
          bypass |-> "absent", external |-> "absent"]
    ELSE IF name = "set_lfclk_src_rc"
    THEN [src |-> "rc", bypass |-> "disabled", external |-> "disabled"]
    ELSE IF name = "set_lfclk_src_synth"
    THEN [src |-> "synth", bypass |-> "disabled", external |-> "disabled"]
    ELSE [src |-> "xtal",
          bypass |-> IF a = "ExternalAndBypass" THEN "enabled" ELSE "disabled",
          external |-> IF a = "NoExternalNoBypass" THEN "disabled" ELSE "enabled"]

SetOps == {"set_lfclk_src_rc", "set_lfclk_src_synth", "set_lfclk_src_external"}

\* C10: after a source selection the whole LFCLKSRC register is what that
\* call alone writes; nothing is carried over from the value it replaced.
C10_LastSelectionWins ==
    (op \in SetOps /\ pc = "idle") => periph.lfclksrc = Selected(feature, op, arg)

\* synth selected over a crystal selection with external enabled.
C10_Witness ==
    /\ Returned("set_lfclk_src_synth")
    /\ entry.lfclksrc.src = "xtal"
    /\ entry.lfclksrc.external = "enabled"
    /\ periph.lfclksrc.src = "synth"

\* C11: on the full layout, from the reset value, LFCLKSRC never holds
\* bypass enabled with external disabled, and holds bypass or external
\* enabled only with the crystal selected.
C11_ReachablePairs ==
    feature = FeatureFull =>
        /\ ~(periph.lfclksrc.bypass = "enabled" /\ periph.lfclksrc.external = "disabled")
        /\ (periph.lfclksrc.bypass = "enabled" \/ periph.lfclksrc.external = "enabled")
              => periph.lfclksrc.src = "xtal"
        /\ periph.lfclksrc.bypass \in {"enabled", "disabled"}
        /\ periph.lfclksrc.external \in {"enabled", "disabled"}

\* External without bypass selected after a selection of both.
C11_Witness ==
    /\ feature = FeatureFull
    /\ prev = "set_lfclk_src_external"
    /\ entry.lfclksrc.bypass = "enabled"
    /\ periph.lfclksrc.external = "enabled"
    /\ periph.lfclksrc.bypass = "disabled"

\* C12: a source selection is not held back by a running LF clock: with
\* the controller idle every selection of the layout can be called, and one
\* called while the LF clock runs returns at once with LFCLKSRC written and
\* the clock still running.
C12_SelectionWhileRunning ==
    /\ (pc = "idle" /\ feature = FeatureFull) =>
          /\ ENABLED set_lfclk_src_rc
          /\ ENABLED set_lfclk_src_synth
          /\ ENABLED set_lfclk_src_external
    /\ (pc = "idle" /\ feature = Feature51) =>
          /\ ENABLED set_lfclk_src_rc_51
          /\ ENABLED set_lfclk_src_synth_51
          /\ ENABLED set_lfclk_src_external_51
    /\ (op \in SetOps /\ entry.lfclk_run) =>
          /\ pc = "idle"
          /\ periph.lfclk_run
          /\ periph.lfclksrc = Selected(feature, op, arg)
          /\ Len(log) = 1 /\ log[1].reg = "lfclksrc"

\* The source changed after start_lfclk returned, with no stop_lfclk between.
C12_Witness ==
    /\ prev = "start_lfclk"
    /\ Returned("set_lfclk_src_synth")
    /\ entry.lfclk_run
    /\ periph.lfclk_run
    /\ periph.lfclksrc # entry.lfclksrc

\* C13: with feature 9160 the only calls are enable_ext_hfosc,
\* disable_ext_hfosc, start_lfclk and stop_lfclk: no call accesses an LF
\* source register, none is ever present, and the controller is only idle
\* or inside a start wait.
C13_NoSourceSelection9160 ==
    feature = Feature9160 =>
        /\ op \in {"none", "enable_ext_hfosc", "disable_ext_hfosc", "start_lfclk", "stop_lfclk"}
        /\ Accesses(log, "lfclksrc") = {}
        /\ periph.lfclksrc = [src |-> "absent", bypass |-> "absent", external |-> "absent"]
        /\ pc \in {"idle", "hf_wait", "hf_clear", "lf_wait", "lf_clear"}
        /\ ~ ENABLED (set_lfclk_src_rc \/ set_lfclk_src_synth \/ set_lfclk_src_external
                      \/ set_lfclk_src_rc_51 \/ set_lfclk_src_synth_51
                      \/ set_lfclk_src_external_51)

\* With feature 9160, stop_lfclk returned after start_lfclk, both clocks running.
C13_Witness ==
    /\ feature = Feature9160
    /\ Returned("stop_lfclk")
    /\ prev = "start_lfclk"
    /\ entry.hfclk_run
    /\ entry.lfclk_run

\* The accesses of a start call so far are a beginning of the sequence:
\* task write, reads of the event returning 0, one read returning 1, the
\* clearing write.
StartPrefix(l, task, event) ==
    /\ Len(l) >= 1
    /\ l[1] = Wr(task, 1)
    /\ \A i \in 2..Len(l) :
          /\ l[i].reg = event
          /\ l[i].kind = "read" /\ l[i].val = 0 =>
                \A j \in 2..(i - 1) : l[j] = Rd(event, 0)
          /\ l[i].kind = "read" /\ l[i].val = 1 =>
                /\ \A j \in 2..(i - 1) : l[j] = Rd(event, 0)
                /\ i >= Len(l) - 1
          /\ l[i].kind = "write" =>
                /\ l[i].val = 0
                /\ i = Len(l)
                /\ i >= 3
                /\ l[i - 1] = Rd(event, 1)

\* C14: the accesses of an enable_ext_hfosc or start_lfclk call come in the
\* order task write, reads of the started event of which the last alone
\* returns 1, one write of 0 to the event; the event is not written before
\* a read returned 1 and not read before the task write.
C14_AccessOrder ==
    /\ op = "enable_ext_hfosc" =>
          /\ StartPrefix(log, "tasks_hfclkstart", "events_hfclkstarted")
          /\ pc = "hf_wait" => \A i \in 2..Len(log) : log[i] = Rd("events_hfclkstarted", 0)
          /\ pc = "hf_clear" => log[Len(log)] = Rd("events_hfclkstarted", 1)
          /\ pc = "idle" => StartPattern(log, "tasks_hfclkstart", "events_hfclkstarted")
    /\ op = "start_lfclk" =>
          /\ StartPrefix(log, "tasks_lfclkstart", "events_lfclkstarted")
          /\ pc = "lf_wait" => \A i \in 2..Len(log) : log[i] = Rd("events_lfclkstarted", 0)
          /\ pc = "lf_clear" => log[Len(log)] = Rd("events_lfclkstarted", 1)
          /\ pc = "idle" => StartPattern(log, "tasks_lfclkstart", "events_lfclkstarted")

\* enable_ext_hfosc returned after one read of 0 and one read of 1.
C14_Witness ==
    /\ Returned("enable_ext_hfosc")
    /\ Len(log) = 4
    /\ log[2] = Rd("events_hfclkstarted", 0)
    /\ log[3] = Rd("events_hfclkstarted", 1)

\* C15: from a peripheral with both started events 0, whose hardware raises
\* a started event only for a start trigger, the event of a start call is 0
\* and no start is pending when the call writes its trigger, and whenever
\* the controller is idle; a start call that returned has had its own
\* request completed by the hardware.
C15_NoStaleFlag ==
    /\ op = "enable_ext_hfosc" =>
          /\ entry.events_hfclkstarted = 0 /\ ~entry.hfclk_req
          /\ pc = "idle" => (~periph.hfclk_req /\ periph.hfclk_run)
    /\ op = "start_lfclk" =>
          /\ entry.events_lfclkstarted = 0 /\ ~entry.lfclk_req
          /\ pc = "idle" => (~periph.lfclk_req /\ periph.lfclk_run)
    /\ pc = "idle" =>
          /\ periph.events_hfclkstarted = 0 /\ ~periph.hfclk_req
          /\ periph.events_lfclkstarted = 0 /\ ~periph.lfclk_req

\* A second start_lfclk in a row that waited for the hardware and returned.
C15_Witness ==
    /\ prev = "start_lfclk"
    /\ Returned("start_lfclk")
    /\ ZeroReads(log) > 0
    /\ entry.lfclk_run

\* The registers and the clock of each domain.
HfRegs == {"tasks_hfclkstart", "tasks_hfclkstop", "events_hfclkstarted"}
LfRegs == {"tasks_lfclkstart", "tasks_lfclkstop", "events_lfclkstarted", "lfclksrc"}

HfPart(p) == <<p.events_hfclkstarted, p.hfclk_run, p.hfclk_req>>
LfPart(p) == <<p.events_lfclkstarted, p.lfclk_run, p.lfclk_req, p.lfclksrc>>

HfCalls == {"enable_ext_hfosc", "disable_ext_hfosc"}
LfCalls == {"start_lfclk", "stop_lfclk"} \cup SetOps

\* C16: every access of enable_ext_hfosc and disable_ext_hfosc is to an HF
\* register and their steps leave the LF events, clock and source as they
\* are; every access of start_lfclk, stop_lfclk and the selections is to an
\* LF register and their steps leave the HF event and clock as they are.
C16_DomainScoped ==
    /\ [](op \in HfCalls => \A i \in 1..Len(log) : log[i].reg \in HfRegs)
    /\ [](op \in LfCalls => \A i \in 1..Len(log) : log[i].reg \in LfRegs)
    /\ [][(enable_ext_hfosc \/ enable_ext_hfosc_poll \/ enable_ext_hfosc_clear
             \/ disable_ext_hfosc) => LfPart(periph') = LfPart(periph)]_vars
    /\ [][(start_lfclk \/ start_lfclk_poll \/ start_lfclk_clear \/ stop_lfclk
             \/ set_lfclk_src_rc \/ set_lfclk_src_synth \/ set_lfclk_src_external
             \/ set_lfclk_src_rc_51 \/ set_lfclk_src_synth_51
             \/ set_lfclk_src_external_51) => HfPart(periph') = HfPart(periph)]_vars

\* stop_lfclk returned with a pending HF-started event left pending.
C16_Witness ==
    /\ Returned("stop_lfclk")
    /\ entry.events_hfclkstarted = 1
    /\ periph.events_hfclkstarted = 1
    /\ entry.lfclk_run

\* LFCLKSRC apart, the peripheral.
NotLfClkSrc(p) == <<HfPart(p), p.events_lfclkstarted, p.lfclk_run, p.lfclk_req>>

\* C17: a source selection is one access, the write of LFCLKSRC, and
\* returns in the step it is called in; it triggers no task, accesses no
\* event and leaves both clocks running or stopped as they were.
C17_SelectionWritesOnly ==
    [][(set_lfclk_src_rc \/ set_lfclk_src_synth \/ set_lfclk_src_external
          \/ set_lfclk_src_rc_51 \/ set_lfclk_src_synth_51
          \/ set_lfclk_src_external_51) =>
            /\ op' \in SetOps
            /\ pc' = "idle"
            /\ Len(log') = 1
            /\ log'[1].kind = "write" /\ log'[1].reg = "lfclksrc"
            /\ log'[1].val = periph'.lfclksrc
            /\ NotLfClkSrc(periph') = NotLfClkSrc(periph)]_vars

\* On the SRC-only layout the crystal selected while both clocks run.
C17_Witness ==
    /\ feature = Feature51
    /\ Returned("set_lfclk_src_external")
    /\ entry.lfclk_run /\ periph.lfclk_run
    /\ entry.hfclk_run /\ periph.hfclk_run
    /\ entry.lfclksrc.src # "xtal"

====
